---- MODULE Spec2Model ----
(***************************************************************************)
(* Model of research/Matroyshka_reranker/finetune/self_distillation/run.py *)
(* main(): the output-directory guard, the tokenizer set-up, the           *)
(* construction of model and trainer, training, and the three persistence  *)
(* steps.  Every process of a (possibly distributed) launch executes       *)
(* main() once; all of them share the pretrained tokenizer files, the      *)
(* command line and the output directory.                                  *)
(***************************************************************************)
EXTENDS Integers, Sequences, FiniteSets, TLC

\* number of processes of a distributed launch (SpecDist)
NumProcs == 2

None == "None"
\* value of an attribute the tokenizer class does not define
Missing == "no attribute"

VARIABLES
    world_size,   \* number of processes executing main()
    args,         \* the parsed command line (model_args, training_args)
    pretrained,   \* the tokenizer stored under model_name_or_path
    startup_dir,  \* state of output_dir when the launch started
    dir,          \* state of output_dir now
    written,      \* artefacts the launch has written below output_dir
    pc,           \* per process: the statement of main() it is about to run
    err,          \* per process: the exception main() terminated with
    tokenizer,    \* per process: the tokenizer object
    model,        \* per process: whether base model and wrapper are loaded
    trainer,      \* per process: the BiTrainer object
    log           \* per process: the library calls made, in order

vars == <<world_size, args, pretrained, startup_dir, dir, written,
          pc, err, tokenizer, model, trainer, log>>

Procs == 0 .. (world_size - 1)

DirStates == {"absent", "file", "empty", "nonempty"}
Sides == {"left", "right"}

\* training_args.output_dir, and the path of the final DeepSpeed checkpoint
OutputDir == <<"output_dir">>
CheckpointDir == Append(OutputDir, "checkpoint-final")

Args ==
    [do_train : BOOLEAN, overwrite_output_dir : BOOLEAN,
     use_lora : BOOLEAN, deepspeed : BOOLEAN, padding_side : Sides]

\* A tokenizer either has the three Qwen attributes or none of them.
Tokenizers ==
    [loaded : {TRUE},
     pad_token_id : {None, "pad"}, unk_token_id : {None, "unk"},
     bos_token_id : {None, "bos"}, eos_token_id : {None, "eos"},
     eod_id : {None, "eod"}, im_start_id : {None, "im_start"},
     im_end_id : {None, "im_end"}, padding_side : Sides]
    \cup
    [loaded : {TRUE},
     pad_token_id : {None, "pad"}, unk_token_id : {None, "unk"},
     bos_token_id : {None, "bos"}, eos_token_id : {None, "eos"},
     eod_id : {Missing}, im_start_id : {Missing},
     im_end_id : {Missing}, padding_side : Sides]

NoTokenizer ==
    [loaded |-> FALSE,
     pad_token_id |-> None, unk_token_id |-> None,
     bos_token_id |-> None, eos_token_id |-> None,
     eod_id |-> Missing, im_start_id |-> Missing,
     im_end_id |-> Missing, padding_side |-> "right"]

NoTrainer == [built |-> FALSE, use_lora |-> FALSE, deepspeed |-> None]

Call(op, arg, result) == [op |-> op, arg |-> arg, result |-> result]

Outcomes == {"returned", "raised"}

----------------------------------------------------------------------------
(* Pure parts of main() *)

\* the guard with the overwrite_output_dir test dropped
GuardTripsIgnoringOverwrite(d, a) ==
    /\ d # "absent"
    /\ d = "nonempty"
    /\ a.do_train

\* lines 27-32: the condition of the guard
GuardTrips(d, a) ==
    /\ d # "absent"                     \* os.path.exists(output_dir)
    /\ d = "nonempty"                   \* os.listdir(output_dir)
    /\ a.do_train
    /\ ~a.overwrite_output_dir

\* the fallback with the eod_id branch tried before the unk_token_id branch
SetUpTokenizerEodFirst(t, side) ==
    LET u == IF t.pad_token_id = None
             THEN IF t.eod_id \notin {None, Missing}
                  THEN [t EXCEPT !.pad_token_id = t.eod_id,
                                 !.bos_token_id = t.im_start_id,
                                 !.eos_token_id = t.im_end_id]
                  ELSE IF t.unk_token_id # None
                       THEN [t EXCEPT !.pad_token_id = t.unk_token_id]
                       ELSE t
             ELSE t
    IN [u EXCEPT !.padding_side = side]

\* the fallback with the bos/eos assignments outside the pad_token_id test
SetUpTokenizerClobbering(t, side) ==
    LET u == IF t.pad_token_id = None
             THEN IF t.unk_token_id # None
                  THEN [t EXCEPT !.pad_token_id = t.unk_token_id]
                  ELSE IF t.eod_id # None
                       THEN [t EXCEPT !.pad_token_id = t.eod_id]
                       ELSE t
             ELSE t
        v == IF t.eod_id \notin {None, Missing}
             THEN [u EXCEPT !.bos_token_id = t.im_start_id,
                            !.eos_token_id = t.im_end_id]
             ELSE u
    IN [v EXCEPT !.padding_side = side]

\* lines 68-75: pad-token fallback and padding side
SetUpTokenizer(t, side) ==
    LET u == IF t.pad_token_id = None
             THEN IF t.unk_token_id # None
                  THEN [t EXCEPT !.pad_token_id = t.unk_token_id]
                  ELSE IF t.eod_id # None
                       THEN [t EXCEPT !.pad_token_id = t.eod_id,
                                      !.bos_token_id = t.im_start_id,
                                      !.eos_token_id = t.im_end_id]
                       ELSE t
             ELSE t
    IN [u EXCEPT !.padding_side = side]

\* line 71 reads tokenizer.eod_id: AttributeError when the class has none
FallbackRaises(t) ==
    /\ t.pad_token_id = None
    /\ t.unk_token_id = None
    /\ t.eod_id = Missing

\* the test of line 131 answering yes on every rank
IsAnyProcess(p) == p = p

\* line 131: trainer.is_world_process_zero()
IsWorldProcessZero(p) == p = 0

----------------------------------------------------------------------------
(* Steps of main() *)

Fail(p, e) ==
    /\ pc' = [pc EXCEPT ![p] = "failed"]
    /\ err' = [err EXCEPT ![p] = e]

Goto(p, l) ==
    /\ pc' = [pc EXCEPT ![p] = l]
    /\ UNCHANGED err

Logged(p, c) == log' = [log EXCEPT ![p] = Append(@, c)]

\* lines 27-35
CheckOutputDir(p) ==
    /\ pc[p] = "check_output_dir"
    /\ IF dir = "file"
       THEN Fail(p, "NotADirectoryError")       \* os.listdir of a file
       ELSE IF GuardTrips(dir, args)
            THEN Fail(p, "ValueError")
            ELSE Goto(p, "load_tokenizer")
    /\ UNCHANGED <<world_size, args, pretrained, startup_dir, dir, written,
                   tokenizer, model, trainer, log>>

\* lines 59-66
LoadTokenizer(p) ==
    /\ pc[p] = "load_tokenizer"
    /\ \E r \in Outcomes :
         /\ Logged(p, Call("AutoTokenizer.from_pretrained", <<>>, r))
         /\ IF r = "returned"
            THEN /\ tokenizer' = [tokenizer EXCEPT ![p] = pretrained]
                 /\ Goto(p, "set_up_tokenizer")
            ELSE /\ UNCHANGED tokenizer
                 /\ Fail(p, "AutoTokenizer.from_pretrained")
    /\ UNCHANGED <<world_size, args, pretrained, startup_dir, dir, written,
                   model, trainer>>

\* lines 68-75
PadFallback(p) ==
    /\ pc[p] = "set_up_tokenizer"
    /\ IF FallbackRaises(tokenizer[p])
       THEN /\ UNCHANGED tokenizer
            /\ Fail(p, "AttributeError")
       ELSE /\ tokenizer' = [tokenizer EXCEPT
                               ![p] = SetUpTokenizer(@, args.padding_side)]
            /\ Goto(p, "build")
    /\ UNCHANGED <<world_size, args, pretrained, startup_dir, dir, written,
                   model, trainer, log>>

\* lines 77-118
Build(p) ==
    /\ pc[p] = "build"
    /\ \E r \in Outcomes :
         /\ Logged(p, Call("get_model", <<>>, r))
         /\ IF r = "returned"
            THEN /\ model' = [model EXCEPT ![p] = TRUE]
                 /\ trainer' = [trainer EXCEPT
                                  ![p] = [built |-> TRUE,
                                          use_lora |-> args.use_lora,
                                          deepspeed |-> None]]
                 /\ Goto(p, "mkdir")
            ELSE /\ UNCHANGED <<model, trainer>>
                 /\ Fail(p, "get_model")
    /\ UNCHANGED <<world_size, args, pretrained, startup_dir, dir, written,
                   tokenizer>>

\* a library call leaves an artefact below output_dir
Write(artefact) ==
    /\ written' = written \cup {artefact}
    /\ dir' = "nonempty"

\* line 120 without the directory being created
MkdirSkipped(p) ==
    /\ pc[p] = "mkdir"
    /\ IF dir = "file"
       THEN Fail(p, "FileExistsError")
       ELSE Goto(p, "train")
    /\ UNCHANGED <<world_size, args, pretrained, startup_dir, dir, written,
                   tokenizer, model, trainer, log>>

\* line 120
Mkdir(p) ==
    /\ pc[p] = "mkdir"
    /\ IF dir = "file"
       THEN /\ Fail(p, "FileExistsError")
            /\ UNCHANGED dir
       ELSE /\ dir' = IF dir = "absent" THEN "empty" ELSE dir
            /\ Goto(p, "train")
    /\ UNCHANGED <<world_size, args, pretrained, startup_dir, written,
                   tokenizer, model, trainer, log>>

\* line 123 inside a try/except that swallows the error
TrainSwallowingErrors(p) ==
    /\ pc[p] = "train"
    /\ \E r \in Outcomes, saved \in BOOLEAN :
         /\ Logged(p, Call("trainer.train", <<>>, r))
         /\ IF saved THEN Write("checkpoint-step")
                     ELSE UNCHANGED <<dir, written>>
         /\ trainer' = [trainer EXCEPT
                          ![p].deepspeed =
                             IF args.deepspeed THEN "engine" ELSE None]
         /\ Goto(p, "save_model")
    /\ UNCHANGED <<world_size, args, pretrained, startup_dir,
                   tokenizer, model>>

\* line 123
Train(p) ==
    /\ pc[p] = "train"
    /\ \E r \in Outcomes, saved \in BOOLEAN :
         /\ Logged(p, Call("trainer.train", <<>>, r))
         /\ IF saved THEN Write("checkpoint-step")
                     ELSE UNCHANGED <<dir, written>>
         /\ IF r = "returned"
            THEN /\ trainer' = [trainer EXCEPT
                                  ![p].deepspeed =
                                     IF args.deepspeed THEN "engine" ELSE None]
                 /\ Goto(p, "save_model")
            ELSE /\ UNCHANGED trainer
                 /\ Fail(p, "trainer.train")
    /\ UNCHANGED <<world_size, args, pretrained, startup_dir,
                   tokenizer, model>>

\* line 124
SaveModel(p) ==
    /\ pc[p] = "save_model"
    /\ \E r \in Outcomes :
         /\ Logged(p, Call("trainer.save_model", OutputDir, r))
         /\ IF r = "returned"
            THEN /\ Write("model")
                 /\ Goto(p, "save_checkpoint")
            ELSE /\ UNCHANGED <<dir, written>>
                 /\ Fail(p, "trainer.save_model")
    /\ UNCHANGED <<world_size, args, pretrained, startup_dir,
                   tokenizer, model, trainer>>

\* lines 126-128
SaveCheckpoint(p) ==
    /\ pc[p] = "save_checkpoint"
    /\ IF args.use_lora
       THEN /\ Goto(p, "save_tokenizer")
            /\ UNCHANGED <<dir, written, log>>
       ELSE IF trainer[p].deepspeed = None
            THEN /\ Fail(p, "AttributeError")   \* None.save_checkpoint
                 /\ UNCHANGED <<dir, written, log>>
            ELSE \E r \in Outcomes :
                   /\ Logged(p, Call("deepspeed.save_checkpoint",
                                     CheckpointDir, r))
                   /\ IF r = "returned"
                      THEN /\ Write("checkpoint-final")
                           /\ Goto(p, "save_tokenizer")
                      ELSE /\ UNCHANGED <<dir, written>>
                           /\ Fail(p, "deepspeed.save_checkpoint")
    /\ UNCHANGED <<world_size, args, pretrained, startup_dir,
                   tokenizer, model, trainer>>

\* lines 131-132
SaveTokenizer(p) ==
    /\ pc[p] = "save_tokenizer"
    /\ IF IsWorldProcessZero(p)
       THEN \E r \in Outcomes :
              /\ Logged(p, Call("tokenizer.save_pretrained", OutputDir, r))
              /\ IF r = "returned"
                 THEN /\ Write("tokenizer")
                      /\ Goto(p, "done")
                 ELSE /\ UNCHANGED <<dir, written>>
                      /\ Fail(p, "tokenizer.save_pretrained")
       ELSE /\ Goto(p, "done")
            /\ UNCHANGED <<dir, written, log>>
    /\ UNCHANGED <<world_size, args, pretrained, startup_dir,
                   tokenizer, model, trainer>>

----------------------------------------------------------------------------

InitProcs(n) ==
    /\ world_size = n
    /\ pc = [p \in 0 .. (n - 1) |-> "check_output_dir"]
    /\ err = [p \in 0 .. (n - 1) |-> None]
    /\ tokenizer = [p \in 0 .. (n - 1) |-> NoTokenizer]
    /\ model = [p \in 0 .. (n - 1) |-> FALSE]
    /\ trainer = [p \in 0 .. (n - 1) |-> NoTrainer]
    /\ log = [p \in 0 .. (n - 1) |-> <<>>]

\* a single process: python run.py ...
Init ==
    /\ InitProcs(1)
    /\ args \in Args
    /\ pretrained \in Tokenizers
    /\ startup_dir \in DirStates
    /\ dir = startup_dir
    /\ written = {}

\* the tokenizers of the distributed launches
DistTokenizers ==
    {t \in Tokenizers : /\ t.pad_token_id = None
                        /\ t.unk_token_id = "unk"
                        /\ t.bos_token_id = "bos"
                        /\ t.eos_token_id = "eos"
                        /\ t.eod_id = Missing
                        /\ t.padding_side = "right"}

\* a distributed launch: every rank runs main()
InitDist ==
    /\ InitProcs(NumProcs)
    /\ args \in {a \in Args : a.padding_side = "left"}
    /\ pretrained \in DistTokenizers
    /\ startup_dir \in DirStates
    /\ dir = startup_dir
    /\ written = {}

Next ==
    \E p \in Procs :
        \/ CheckOutputDir(p)
        \/ LoadTokenizer(p)
        \/ PadFallback(p)
        \/ Build(p)
        \/ Mkdir(p)
        \/ Train(p)
        \/ SaveModel(p)
        \/ SaveCheckpoint(p)
        \/ SaveTokenizer(p)

Spec == Init /\ [][Next]_vars

SpecDist == InitDist /\ [][Next]_vars

----------------------------------------------------------------------------
(* Properties *)

Called(p, op) == \E i \in DOMAIN log[p] : log[p][i].op = op

Returned(p, op) ==
    \E i \in DOMAIN log[p] : log[p][i].op = op /\ log[p][i].result = "returned"

Raised(p, op) ==
    \E i \in DOMAIN log[p] : log[p][i].op = op /\ log[p][i].result = "raised"

Terminated(p) == pc[p] \in {"done", "failed"}

PersistenceOps ==
    {"trainer.save_model", "deepspeed.save_checkpoint",
     "tokenizer.save_pretrained"}

\* the statements of lines 68-75 have been executed without an exception
PastSetUp(p) == pc[p] = "build" \/ Called(p, "get_model")

\* C1: main() raises the ValueError of line 33 exactly when, at start-up,
\* output_dir exists and is a non-empty directory, do_train is true and
\* overwrite_output_dir is false; and when it raises, nothing has been
\* loaded, no library call has been made, and output_dir is as it was.
C1_GuardRaisesFirst ==
    \A p \in Procs :
        /\ pc[p] # "check_output_dir" =>
              (err[p] = "ValueError" <=>
                  /\ startup_dir = "nonempty"
                  /\ args.do_train
                  /\ ~args.overwrite_output_dir)
        /\ err[p] = "ValueError" =>
              /\ log[p] = <<>>
              /\ ~tokenizer[p].loaded
              /\ ~model[p]
              /\ ~trainer[p].built
              /\ dir = startup_dir
              /\ written = {}

C1_Witness ==
    /\ pc[0] = "failed"
    /\ err[0] = "ValueError"
    /\ startup_dir = "nonempty"

\* C2: in every process, save_model is called only after train has
\* returned, the checkpoint-final save only after save_model has returned,
\* the tokenizer save only after save_model and (when performed) the
\* checkpoint-final save have returned; each of the four is called at most
\* once, and the tokenizer is saved to the directory the model is saved to.
C2_PersistenceOrder ==
    \A p \in Procs :
        LET l == log[p]
            ReturnedBefore(op, j) ==
                \E i \in DOMAIN l :
                    i < j /\ l[i].op = op /\ l[i].result = "returned"
        IN /\ \A j \in DOMAIN l :
                /\ l[j].op = "trainer.save_model" =>
                      ReturnedBefore("trainer.train", j)
                /\ l[j].op = "deepspeed.save_checkpoint" =>
                      ReturnedBefore("trainer.save_model", j)
                /\ l[j].op = "tokenizer.save_pretrained" =>
                      /\ ReturnedBefore("trainer.save_model", j)
                      /\ \A k \in DOMAIN l :
                            l[k].op = "deepspeed.save_checkpoint" =>
                                k < j /\ l[k].result = "returned"
           /\ \A i, j \in DOMAIN l :
                (/\ i # j
                 /\ l[i].op \in PersistenceOps \cup {"trainer.train"})
                    => l[i].op # l[j].op
           /\ \A i, j \in DOMAIN l :
                (/\ l[i].op = "trainer.save_model"
                 /\ l[j].op = "tokenizer.save_pretrained")
                    => l[i].arg = l[j].arg

C2_Witness ==
    /\ pc[0] = "done"
    /\ Returned(0, "trainer.train")
    /\ Returned(0, "trainer.save_model")
    /\ Returned(0, "deepspeed.save_checkpoint")
    /\ Returned(0, "tokenizer.save_pretrained")

\* C3: a run of main() whose training call returns, and in which no library
\* call raises afterwards, has called trainer.save_model and, on the
\* world-process-zero process, tokenizer.save_pretrained when it ends,
\* whatever use_lora is and whether or not the trainer has a DeepSpeed
\* engine.
C3_TrainedRunPersists ==
    \A p \in Procs :
        (/\ Terminated(p)
         /\ Returned(p, "trainer.train")
         /\ \A i \in DOMAIN log[p] : log[p][i].result = "returned")
            => /\ Called(p, "trainer.save_model")
               /\ p = 0 => Called(p, "tokenizer.save_pretrained")

\* C4: no run trains into or saves into an output directory that existed
\* and was non-empty at start-up unless overwrite_output_dir is set,
\* whatever do_train is.
C4_NonEmptyDirUntouched ==
    \A p \in Procs :
        (startup_dir = "nonempty" /\ ~args.overwrite_output_dir)
            => \A i \in DOMAIN log[p] :
                  log[p][i].op \notin PersistenceOps \cup {"trainer.train"}

\* C5: after the tokenizer set-up, a pad_token_id that was None is
\* unk_token_id when that is set (even if eod_id is set too); it is eod_id,
\* with bos_token_id = im_start_id and eos_token_id = im_end_id, when
\* unk_token_id is None and eod_id is set; it stays None when all three are
\* None.  So pad_token_id is set afterwards exactly when one of the loaded
\* pad_token_id, unk_token_id, eod_id was.
C5_PadFallbackPriority ==
    \A p \in Procs :
        PastSetUp(p) =>
            LET o == pretrained
                t == tokenizer[p]
                Set(x) == x \notin {None, Missing}
            IN /\ (o.pad_token_id = None /\ Set(o.unk_token_id))
                      => t.pad_token_id = o.unk_token_id
               /\ (/\ o.pad_token_id = None
                   /\ o.unk_token_id = None
                   /\ Set(o.eod_id))
                      => /\ t.pad_token_id = o.eod_id
                         /\ t.bos_token_id = o.im_start_id
                         /\ t.eos_token_id = o.im_end_id
               /\ (/\ o.pad_token_id = None
                   /\ o.unk_token_id = None
                   /\ o.eod_id = None)
                      => t.pad_token_id = None
               /\ Set(t.pad_token_id) <=>
                      \/ Set(o.pad_token_id)
                      \/ Set(o.unk_token_id)
                      \/ Set(o.eod_id)

C5_Witness ==
    /\ PastSetUp(0)
    /\ pretrained.pad_token_id = None
    /\ pretrained.unk_token_id = "unk"
    /\ pretrained.eod_id = "eod"
    /\ tokenizer[0].pad_token_id = "unk"

\* C6: the tokenizer set-up changes nothing it need not change: with a
\* pad_token_id already set, pad_token_id, bos_token_id and eos_token_id
\* keep their loaded values; in the unk_token_id branch bos_token_id and
\* eos_token_id keep theirs; bos_token_id and eos_token_id are overwritten
\* only in the eod_id branch; and padding_side is model_args.padding_side
\* in every branch.
C6_SetUpFrame ==
    \A p \in Procs :
        PastSetUp(p) =>
            LET o == pretrained
                t == tokenizer[p]
                Set(x) == x \notin {None, Missing}
            IN /\ Set(o.pad_token_id)
                      => /\ t.pad_token_id = o.pad_token_id
                         /\ t.bos_token_id = o.bos_token_id
                         /\ t.eos_token_id = o.eos_token_id
               /\ (o.pad_token_id = None /\ Set(o.unk_token_id))
                      => /\ t.bos_token_id = o.bos_token_id
                         /\ t.eos_token_id = o.eos_token_id
               /\ (\/ t.bos_token_id # o.bos_token_id
                   \/ t.eos_token_id # o.eos_token_id)
                      => /\ o.pad_token_id = None
                         /\ o.unk_token_id = None
                         /\ Set(o.eod_id)
               /\ t.padding_side = args.padding_side

C6_Witness ==
    /\ PastSetUp(0)
    /\ pretrained.pad_token_id = "pad"
    /\ pretrained.unk_token_id = "unk"
    /\ pretrained.eod_id = "eod"
    /\ pretrained.im_start_id = "im_start"
    /\ pretrained.padding_side # args.padding_side
    /\ tokenizer[0].bos_token_id = pretrained.bos_token_id

\* C7: in a distributed launch only the world-process-zero process calls
\* tokenizer.save_pretrained, so at most one process writes the tokenizer
\* files, while every process that runs to the end, process zero or not,
\* has called trainer.train, trainer.save_model and, when use_lora is
\* false, deepspeed.save_checkpoint.
C7_OnlyProcessZeroSavesTokenizer ==
    /\ \A p \in Procs : Called(p, "tokenizer.save_pretrained") => p = 0
    /\ Cardinality({p \in Procs :
                       Called(p, "tokenizer.save_pretrained")}) <= 1
    /\ \A p \in Procs :
          pc[p] = "done" =>
              /\ Called(p, "trainer.train")
              /\ Called(p, "trainer.save_model")
              /\ ~args.use_lora => Called(p, "deepspeed.save_checkpoint")

C7_Witness ==
    /\ world_size >= 2
    /\ \A p \in Procs : pc[p] = "done"
    /\ ~args.use_lora
    /\ Returned(0, "tokenizer.save_pretrained")
    /\ Returned(1, "deepspeed.save_checkpoint")
    /\ ~Called(1, "tokenizer.save_pretrained")

\* C8: an exception of trainer.train ends main() with that exception and
\* without any of the three saves being called; an exception of
\* trainer.save_model ends it without the checkpoint-final save and the
\* tokenizer save; neither call is repeated; and whenever training has
\* been started output_dir exists as a directory.
C8_FailuresPropagate ==
    \A p \in Procs :
        /\ Raised(p, "trainer.train") =>
              /\ pc[p] = "failed"
              /\ err[p] = "trainer.train"
              /\ \A i \in DOMAIN log[p] : log[p][i].op \notin PersistenceOps
        /\ Raised(p, "trainer.save_model") =>
              /\ pc[p] = "failed"
              /\ err[p] = "trainer.save_model"
              /\ ~Called(p, "deepspeed.save_checkpoint")
              /\ ~Called(p, "tokenizer.save_pretrained")
        /\ Cardinality({i \in DOMAIN log[p] :
                           log[p][i].op = "trainer.train"}) <= 1
        /\ Cardinality({i \in DOMAIN log[p] :
                           log[p][i].op = "trainer.save_model"}) <= 1
        /\ (pc[p] = "train" \/ Called(p, "trainer.train"))
              => dir \in {"empty", "nonempty"}

C8_Witness ==
    /\ startup_dir = "absent"
    /\ Raised(0, "trainer.train")
    /\ pc[0] = "failed"
    /\ dir = "empty"

====
